---- MODULE Spec2Model ----
(***************************************************************************)
(* Model of the two in-page polling scripts of BBRLDB:                     *)
(*   - the Bracket Change Watcher (src/unnamed/part_000), and              *)
(*   - the Status Poller and its Renderer (src/static/challonge_live.js).  *)
(* JavaScript values are tagged records; the DOM is a tree of node records.*)
(***************************************************************************)
EXTENDS Integers, Sequences, FiniteSets, TLC

VARIABLES
  \* ---- Bracket Change Watcher (src/unnamed/part_000)
  page,            \* what the watcher finds in the page at startup
  wpc,             \* "boot" | "off" | "crashed" | "running" | "unloaded"
  intervalMs,      \* the delay given to setInterval (0 before it is installed)
  lastSeenUpdate,  \* the closure variable of line 22
  polls,           \* the pollBracket invocations in flight, by slot
  ticks,           \* interval ticks fired so far
  reloads,         \* calls of window.location.reload() so far
  log,             \* one entry per finished pollBracket invocation
  \* ---- Status Poller and Renderer (src/static/challonge_live.js)
  scaffold,        \* the static page: root, status section, regions
  ppc,             \* "loading" | "noroot" | "ready"
  chains,          \* the fetchAndRender promise chains in flight, by slot
  timer,           \* the closure variable `timer` (0 is null)
  timers,          \* the setTimeout callbacks pending, by handle
  dom,             \* the content of the status elements and the regions
  lastRender,      \* the last call of applyPayload: its cause and payload
  lastCycle        \* the last finished cycle: its outcome and call counts

wvars == <<page, wpc, intervalMs, lastSeenUpdate, polls, ticks, reloads, log>>
pvars == <<scaffold, ppc, chains, timer, timers, dom, lastRender, lastCycle>>
vars == <<page, wpc, intervalMs, lastSeenUpdate, polls, ticks, reloads, log,
          scaffold, ppc, chains, timer, timers, dom, lastRender, lastCycle>>

----------------------------------------------------------------------------
(* Bounds of the model.                                                    *)

\* interval ticks of the watcher that are followed
MaxTicks == 3
\* pollBracket invocations that may be in flight at once
MaxPolls == 2
\* fetchAndRender chains that may be in flight at once
MaxChains == 2
\* children a region may have in the static scaffold
MaxLead == 2

----------------------------------------------------------------------------
(* JavaScript values.                                                      *)

Undef == [t |-> "undefined"]
Null == [t |-> "null"]
Bool(b) == [t |-> "bool", b |-> b]
Num(n) == [t |-> "num", n |-> n]
Str(s) == [t |-> "str", s |-> s]
Arr(a) == [t |-> "arr", a |-> a, o |-> <<>>]
Obj(o) == [t |-> "obj", o |-> o]
EmptyObj == [t |-> "obj", o |-> <<>>]

\* v === null || v === undefined
Nullish(v) == v.t \in {"undefined", "null"}

\* ToBoolean(v)
Truthy(v) ==
  CASE v.t = "undefined" -> FALSE
    [] v.t = "null" -> FALSE
    [] v.t = "bool" -> v.b
    [] v.t = "num" -> v.n # 0
    [] v.t = "str" -> v.s # ""
    [] OTHER -> TRUE

\* v.k for a v that is neither null nor undefined
Get(v, k) ==
  CASE v.t = "obj" -> IF k \in DOMAIN v.o THEN v.o[k] ELSE Undef
    [] v.t = "arr" -> IF k = "length" THEN Num(Len(v.a))
                      ELSE IF k \in DOMAIN v.o THEN v.o[k] ELSE Undef
    [] v.t = "str" -> IF k = "length" THEN Num(Len(v.s)) ELSE Undef
    [] OTHER -> Undef

\* v?.k
OptGet(v, k) == IF Nullish(v) THEN Undef ELSE Get(v, k)

\* a || b
Or(a, b) == IF Truthy(a) THEN a ELSE b

\* a ?? b
Coalesce(a, b) == IF Nullish(a) THEN b ELSE a

RECURSIVE JsString(_)
RECURSIVE JoinFrom(_, _)
\* Array.prototype.join(",") from index i on: null and undefined give ""
JoinFrom(a, i) ==
  IF i > Len(a) THEN ""
  ELSE (IF Nullish(a[i]) THEN "" ELSE JsString(a[i]))
       \o (IF i < Len(a) THEN "," \o JoinFrom(a, i + 1) ELSE "")

\* String(v), the conversion a DOM string attribute applies too
JsString(v) ==
  CASE v.t = "undefined" -> "undefined"
    [] v.t = "null" -> "null"
    [] v.t = "bool" -> IF v.b THEN "true" ELSE "false"
    [] v.t = "num" -> ToString(v.n)
    [] v.t = "str" -> v.s
    [] v.t = "arr" -> JoinFrom(v.a, 1)
    [] OTHER -> "[object Object]"

----------------------------------------------------------------------------
(* Bracket Change Watcher: src/unnamed/part_000                            *)

\* The text of #publicBracketConfig: empty, not JSON, or JSON with its value.
ConfigText(empty, valid, value) == [empty |-> empty, valid |-> valid, value |-> value]

ConfigTexts ==
  << ConfigText(TRUE, TRUE, Undef),
     ConfigText(FALSE, FALSE, Undef),
     ConfigText(FALSE, TRUE, Null),
     ConfigText(FALSE, TRUE, EmptyObj),
     ConfigText(FALSE, TRUE, Obj([apiUrl |-> Str("/api/bracket")])),
     ConfigText(FALSE, TRUE, Obj([refreshInterval |-> Num(5000)])),
     ConfigText(FALSE, TRUE, Obj([apiUrl |-> Str(""), refreshInterval |-> Num(5000)])),
     ConfigText(FALSE, TRUE, Obj([apiUrl |-> Str("/api/bracket"), refreshInterval |-> Num(0)])),
     ConfigText(FALSE, TRUE, Obj([apiUrl |-> Str("/api/bracket"), refreshInterval |-> Num(-5)])),
     ConfigText(FALSE, TRUE, Obj([apiUrl |-> Str("/api/bracket"), refreshInterval |-> Str("soon")])),
     ConfigText(FALSE, TRUE, Obj([apiUrl |-> Str("/api/bracket"), refreshInterval |-> Str("15s")])),
     ConfigText(FALSE, TRUE, Obj([apiUrl |-> Str("/api/bracket"), refreshInterval |-> Num(5000)])) >>

\* #tournamentBracket: whether it has a dataset, and its data-updated attribute.
Markers ==
  << [dataset |-> FALSE, updated |-> Undef],
     [dataset |-> TRUE, updated |-> Undef],
     [dataset |-> TRUE, updated |-> Str("")],
     [dataset |-> TRUE, updated |-> Str("a")] >>

\* The bodies the bracket endpoint may answer with.
WatcherBodies ==
  << Null,
     EmptyObj,
     Obj([meta |-> Null]),
     Obj([meta |-> Num(5)]),
     Obj([meta |-> EmptyObj]),
     Obj([meta |-> Obj([updated_at |-> Null])]),
     Obj([meta |-> Obj([updated_at |-> Str("")])]),
     Obj([meta |-> Obj([updated_at |-> Num(0)])]),
     Obj([meta |-> Obj([updated_at |-> Str("a")])]),
     Obj([meta |-> Obj([updated_at |-> Str("b")])]) >>

\* JSON.parse(configEl.textContent || configEl.innerText || '{}')
ParseConfig(text) ==
  IF text.empty THEN [threw |-> FALSE, value |-> EmptyObj]
  ELSE IF ~text.valid THEN [threw |-> TRUE, value |-> Undef]
  ELSE [threw |-> FALSE, value |-> text.value]

NaN == [nan |-> TRUE, n |-> 0]
IntVal(n) == [nan |-> FALSE, n |-> n]

\* parseInt(v, 10): the leading integer of String(v), NaN when there is none
ParseInt(v) ==
  CASE v.t = "num" -> IntVal(v.n)
    [] v.t = "str" ->
         (CASE v.s = "15s" -> IntVal(15)
            [] v.s = "5000" -> IntVal(5000)
            [] v.s = "0" -> IntVal(0)
            [] OTHER -> NaN)
    [] OTHER -> NaN

\* A guard that lets an interval of zero through.
Positive_OrZero(i) == ~i.nan /\ i.n >= 0

\* intervalMs > 0
Positive(i) == ~i.nan /\ i.n > 0

\* Startup that never reads the page's marker: the baseline starts null.
Startup_NoSeed(pg) ==
  IF ~pg.configEl \/ ~pg.bracket
  THEN [pc |-> "off", interval |-> 0, last |-> Undef]
  ELSE LET parsed == ParseConfig(ConfigTexts[pg.config]) IN
       IF parsed.threw
       THEN [pc |-> "off", interval |-> 0, last |-> Undef]
       ELSE IF Nullish(parsed.value)
       THEN [pc |-> "crashed", interval |-> 0, last |-> Undef]
       ELSE LET apiUrl == Get(parsed.value, "apiUrl")
                ms == ParseInt(Get(parsed.value, "refreshInterval"))
            IN IF ~Truthy(apiUrl) \/ ~Positive(ms)
               THEN [pc |-> "off", interval |-> 0, last |-> Undef]
               ELSE [pc |-> "running", interval |-> ms.n, last |-> Null]

\* Lines 2-22 and 51: the guards of the startup, the seed of the baseline and
\* the installation of the interval timer.
Startup(pg) ==
  IF ~pg.configEl \/ ~pg.bracket
  THEN [pc |-> "off", interval |-> 0, last |-> Undef]
  ELSE LET parsed == ParseConfig(ConfigTexts[pg.config]) IN
       IF parsed.threw
       THEN [pc |-> "off", interval |-> 0, last |-> Undef]
       ELSE IF Nullish(parsed.value)
       THEN \* config.apiUrl of null: a TypeError outside any try
            [pc |-> "crashed", interval |-> 0, last |-> Undef]
       ELSE LET apiUrl == Get(parsed.value, "apiUrl")
                ms == ParseInt(Get(parsed.value, "refreshInterval"))
            IN IF ~Truthy(apiUrl) \/ ~Positive(ms)
               THEN [pc |-> "off", interval |-> 0, last |-> Undef]
               ELSE [pc |-> "running", interval |-> ms.n,
                     last |-> IF Markers[pg.marker].dataset
                              THEN Markers[pg.marker].updated ELSE Null]

\* ComparePoll without the baseline branch of lines 39-42: every observation
\* is compared with the stored value and then stored.
ComparePoll_NoBaseline(last, data) ==
  IF ~Truthy(data) \/ ~Truthy(Get(data, "meta"))
  THEN [last |-> last, reload |-> FALSE]
  ELSE LET updatedValue == Get(Get(data, "meta"), "updated_at") IN
       IF Nullish(updatedValue)
       THEN [last |-> last, reload |-> FALSE]
       ELSE LET normalized == Str(JsString(updatedValue)) IN
            [last |-> normalized, reload |-> normalized # last]

\* ComparePoll whose line 35 tests undefined only, so that null is stringified.
ComparePoll_NullPasses(last, data) ==
  IF ~Truthy(data) \/ ~Truthy(Get(data, "meta"))
  THEN [last |-> last, reload |-> FALSE]
  ELSE LET updatedValue == Get(Get(data, "meta"), "updated_at") IN
       IF updatedValue.t = "undefined"
       THEN [last |-> last, reload |-> FALSE]
       ELSE LET normalized == Str(JsString(updatedValue)) IN
            IF ~Truthy(last)
            THEN [last |-> normalized, reload |-> FALSE]
            ELSE [last |-> last, reload |-> normalized # last]

\* ComparePoll that follows the most recent value: a differing observation
\* triggers the reload and becomes the stored value.
ComparePoll_Rebase(last, data) ==
  IF ~Truthy(data) \/ ~Truthy(Get(data, "meta"))
  THEN [last |-> last, reload |-> FALSE]
  ELSE LET updatedValue == Get(Get(data, "meta"), "updated_at") IN
       IF Nullish(updatedValue)
       THEN [last |-> last, reload |-> FALSE]
       ELSE LET normalized == Str(JsString(updatedValue)) IN
            IF ~Truthy(last)
            THEN [last |-> normalized, reload |-> FALSE]
            ELSE [last |-> normalized, reload |-> normalized # last]

\* Lines 31-45: what pollBracket does with the parsed body.
ComparePoll(last, data) ==
  IF ~Truthy(data) \/ ~Truthy(Get(data, "meta"))
  THEN [last |-> last, reload |-> FALSE]
  ELSE LET updatedValue == Get(Get(data, "meta"), "updated_at") IN
       IF Nullish(updatedValue)
       THEN [last |-> last, reload |-> FALSE]
       ELSE LET normalized == Str(JsString(updatedValue)) IN
            IF ~Truthy(last)
            THEN [last |-> normalized, reload |-> FALSE]
            ELSE [last |-> last, reload |-> normalized # last]

FreePoll == [stage |-> "free", body |-> 0]

\* The lowest free slot: the invocation a tick starts.
FreeSlot(ps) == CHOOSE s \in DOMAIN ps : ps[s].stage = "free" /\ \A r \in DOMAIN ps : ps[r].stage = "free" => s <= r

\* What a response offers the watcher, whatever the handler does with it: the
\* updated_at of a body that is an object whose meta is an object.
OfferedUpdate(data) ==
  IF data.t = "obj" /\ Get(data, "meta").t = "obj"
  THEN Get(Get(data, "meta"), "updated_at") ELSE Undef

\* Lines 25 and 46-48: the try block covers every step of pollBracket, so what
\* a step throws or rejects with is warned about and goes no further.
TryCovers(step) == step \in {"fetch", "ok", "json", "compare"}

LogEntry(cause, data, before, after, reload, escaped) ==
  [cause |-> cause,
   norm |-> IF cause = "value" THEN JsString(OfferedUpdate(data)) ELSE "",
   armed |-> Truthy(before),
   changed |-> after # before,
   last |-> after,
   reload |-> reload,
   escaped |-> escaped,
   reloads |-> reloads + (IF reload THEN 1 ELSE 0)]

WatcherStartup ==
  /\ wpc = "boot"
  /\ LET r == Startup(page) IN
       /\ wpc' = r.pc
       /\ intervalMs' = r.interval
       /\ lastSeenUpdate' = r.last
  /\ UNCHANGED <<page, polls, ticks, reloads, log>>

\* Line 51 firing: setInterval calls pollBracket, which calls fetch (line 26).
Tick ==
  /\ wpc = "running"
  /\ ticks < MaxTicks
  /\ \E s \in DOMAIN polls : polls[s].stage = "free"
  /\ polls' = [polls EXCEPT ![FreeSlot(polls)] = [stage |-> "fetch", body |-> 0]]
  /\ ticks' = ticks + 1
  /\ UNCHANGED <<page, wpc, intervalMs, lastSeenUpdate, reloads, log>>

\* Line 26 rejecting: the catch of lines 46-48 warns and the invocation ends.
PollFetchReject(s) ==
  /\ wpc = "running"
  /\ polls[s].stage = "fetch"
  /\ polls' = [polls EXCEPT ![s] = FreePoll]
  /\ log' = Append(log, LogEntry("rejected", Undef, lastSeenUpdate, lastSeenUpdate, FALSE, ~TryCovers("fetch")))
  /\ UNCHANGED <<page, wpc, intervalMs, lastSeenUpdate, ticks, reloads>>

\* Line 26 resolving: lines 27-30.
PollFetchResolve(s, ok, b) ==
  /\ wpc = "running"
  /\ polls[s].stage = "fetch"
  /\ IF ~ok
     THEN /\ polls' = [polls EXCEPT ![s] = FreePoll]
          /\ log' = Append(log, LogEntry("notOk", Undef, lastSeenUpdate, lastSeenUpdate, FALSE, FALSE))
     ELSE /\ polls' = [polls EXCEPT ![s] = [stage |-> "json", body |-> b]]
          /\ log' = log
  /\ UNCHANGED <<page, wpc, intervalMs, lastSeenUpdate, ticks, reloads>>

\* Line 30 settling: a body that is not JSON rejects into the catch; a parsed
\* body runs lines 31-45.
PollJsonSettle(s) ==
  /\ wpc = "running"
  /\ polls[s].stage = "json"
  /\ polls' = [polls EXCEPT ![s] = FreePoll]
  /\ IF polls[s].body = 0
     THEN /\ log' = Append(log, LogEntry("badJson", Undef, lastSeenUpdate, lastSeenUpdate, FALSE, ~TryCovers("json")))
          /\ UNCHANGED <<lastSeenUpdate, reloads>>
     ELSE LET data == WatcherBodies[polls[s].body]
              r == ComparePoll(lastSeenUpdate, data)
              cause == IF Nullish(OfferedUpdate(data)) THEN "noUpdate" ELSE "value"
          IN /\ lastSeenUpdate' = r.last
             /\ reloads' = reloads + (IF r.reload THEN 1 ELSE 0)
             /\ log' = Append(log, LogEntry(cause, data, lastSeenUpdate, r.last, r.reload, FALSE))
  /\ UNCHANGED <<page, wpc, intervalMs, ticks>>

\* The navigation that line 44 asked for commits: the page and all its state go.
Unload ==
  /\ wpc = "running"
  /\ reloads > 0
  /\ wpc' = "unloaded"
  /\ polls' = [s \in DOMAIN polls |-> FreePoll]
  /\ UNCHANGED <<page, intervalMs, lastSeenUpdate, ticks, reloads, log>>

----------------------------------------------------------------------------
(* Renderer: src/static/challonge_live.js, lines 1-274                     *)

REFRESH_MS == 15000

Regions == {"current", "upcoming", "recent", "rounds"}

\* An element (or, with tag "#text", a text node): its class attribute, its
\* data-* attribute (none, or one string), its own text and its children.
El(tag, cls, data, text, kids) ==
  [tag |-> tag, cls |-> cls, data |-> data, text |-> text, kids |-> kids]

\* el.textContent = v: null and undefined give the empty string
TextContent(v) == IF Nullish(v) THEN "" ELSE JsString(v)

\* String.prototype.toLowerCase, on the strings the model's payloads hold
ToLowerCase(str) ==
  CASE str = "Complete" -> "complete"
    [] str = "UNDERWAY" -> "underway"
    [] OTHER -> str

\* stateStrings[key] (lines 5-10): the four own properties, and what a plain
\* object inherits (its constructor)
StateStrings(key) ==
  CASE key = "complete" -> Str("Final")
    [] key = "underway" -> Str("In Progress")
    [] key = "pending" -> Str("Upcoming")
    [] key = "open" -> Str("Upcoming")
    [] key = "constructor" -> Str("function Object() { [native code] }")
    [] OTHER -> Undef

RECURSIVE RemoveContent_KeepTwo(_)
\* removeContent whose loop stops at two children.
RemoveContent_KeepTwo(kids) ==
  IF Len(kids) > 2 THEN RemoveContent_KeepTwo(SubSeq(kids, 1, Len(kids) - 1)) ELSE kids

RECURSIVE RemoveContent(_)
\* Lines 12-17: removes the last child while there is more than one.
RemoveContent(kids) ==
  IF Len(kids) > 1 THEN RemoveContent(SubSeq(kids, 1, Len(kids) - 1)) ELSE kids

\* Lines 77-80, 95-98, 157-160: the placeholder paragraph.
EmptyCopy(text) == El("p", "empty-copy", <<>>, text, <<>>)

\* dataset.x = id when id is neither undefined nor null
DataAttr(id) == IF Nullish(id) THEN <<>> ELSE <<JsString(id)>>

\* WinnerClass that marks a slot whenever the match names any winner.
WinnerClass_AnyWinner(cls, match, slot) ==
  IF Truthy(OptGet(match, "winner_slot")) THEN cls \o " winner" ELSE cls

\* Lines 37-39, 48-50, 117-119, 128-130: classList.add('winner')
WinnerClass(cls, match, slot) ==
  IF OptGet(match, "winner_slot") = Str(slot) THEN cls \o " winner" ELSE cls

\* Lines 57-68 and 137-148: the optional score and the state.
MetaKids(match) ==
  (IF Truthy(OptGet(match, "score_text"))
   THEN <<El("span", "match-score", <<>>, TextContent(OptGet(match, "score_text")), <<>>)>>
   ELSE <<>>)
  \o <<El("span", "match-state", <<>>, TextContent(Or(OptGet(match, "status_text"), Str(""))), <<>>)>>

\* Lines 19-71.
CreateMatchRow(match) ==
  El("li", "match-row",
     IF Truthy(match) THEN DataAttr(Get(match, "id")) ELSE <<>>, "",
     << El("div", "match-round", <<>>, TextContent(Or(OptGet(match, "round_label"), Str("Round"))), <<>>),
        El("div", "match-players", <<>>, "",
           << El("span", WinnerClass("match-player", match, "player1"), <<>>,
                 TextContent(Or(OptGet(match, "player1_name"), Str("TBD"))), <<>>),
              El("span", "match-vs", <<>>, "vs", <<>>),
              El("span", WinnerClass("match-player", match, "player2"), <<>>,
                 TextContent(Or(OptGet(match, "player2_name"), Str("TBD"))), <<>>) >>),
        El("div", "match-meta", <<>>, "", MetaKids(match)) >>)

\* A region function's result: the region's children, and whether it threw.
Done(kids) == [kids |-> kids, threw |-> FALSE]
Threw(kids) == [kids |-> kids, threw |-> TRUE]

\* Lines 73-89. matches.forEach is a TypeError unless matches is an array.
RenderMatchList(kids, matches, emptyText) ==
  LET cleared == RemoveContent(kids) IN
  IF ~Truthy(matches) \/ ~Truthy(Get(matches, "length"))
  THEN Done(Append(cleared, EmptyCopy(emptyText)))
  ELSE IF matches.t # "arr" THEN Threw(cleared)
  ELSE Done(Append(cleared,
         El("ul", "match-list", <<>>, "",
            [i \in 1..Len(matches.a) |-> CreateMatchRow(matches.a[i])])))

\* Lines 91-151. match is truthy past line 94, so no access can throw.
RenderCurrent(kids, match) ==
  LET cleared == RemoveContent(kids) IN
  IF ~Truthy(match)
  THEN Done(Append(cleared, EmptyCopy("No live match right now.")))
  ELSE Done(Append(cleared,
         El("div", "current-match-card", DataAttr(Get(match, "id")), "",
            << El("div", "match-round", <<>>, TextContent(Or(Get(match, "round_label"), Str("Round"))), <<>>),
               El("div", "current-versus", <<>>, "",
                  << El("div", WinnerClass("current-player", match, "player1"), <<>>,
                        TextContent(Or(Get(match, "player1_name"), Str("TBD"))), <<>>),
                     El("div", "current-vs", <<>>, "vs", <<>>),
                     El("div", WinnerClass("current-player", match, "player2"), <<>>,
                        TextContent(Or(Get(match, "player2_name"), Str("TBD"))), <<>>) >>),
               El("div", "current-meta", <<>>, "", MetaKids(match)) >>)))

\* Lines 165-183 for one round: round.round of null or undefined is a
\* TypeError, and so is forEach on a round.matches that is truthy and no array.
RoundThrows(round) ==
  \/ Nullish(round)
  \/ Truthy(Get(round, "matches")) /\ Get(round, "matches").t # "arr"

RoundCard(round) ==
  LET ms == Or(Get(round, "matches"), Arr(<<>>)) IN
  El("div", "round-card", DataAttr(Get(round, "round")), "",
     << El("h4", "round-title", <<>>,
           TextContent(Or(Get(round, "round_label"),
                          Str("Round " \o JsString(Coalesce(Get(round, "round"), Str(""))))))
           , <<>>),
        El("ul", "match-list compact", <<>>, "",
           [i \in 1..Len(ms.a) |-> CreateMatchRow(ms.a[i])]) >>)

\* Lines 153-185.
RenderRounds(kids, rounds) ==
  LET cleared == RemoveContent(kids) IN
  IF ~Truthy(rounds) \/ ~Truthy(Get(rounds, "length"))
  THEN Done(Append(cleared, EmptyCopy("Bracket data will appear once matches are seeded.")))
  ELSE IF rounds.t # "arr" THEN Threw(cleared)
  ELSE IF \E i \in 1..Len(rounds.a) : RoundThrows(rounds.a[i]) THEN Threw(cleared)
  ELSE Done(Append(cleared,
         El("div", "rounds-grid", <<>>, "",
            [i \in 1..Len(rounds.a) |-> RoundCard(rounds.a[i])])))


\* U+2014, the em dash the status summary shows for a missing value
EmDash == "--"

TextNode(text) == El("#text", "", <<>>, text, <<>>)

\* Lines 196-210: toLowerCase is a TypeError on a truthy state that is no string.
StateThrows(tournament) ==
  Truthy(OptGet(tournament, "state")) /\ Get(tournament, "state").t # "str"

StateKids(tournament) ==
  IF Truthy(OptGet(tournament, "state"))
  THEN LET raw == Get(tournament, "state")
           stateLabel == Or(StateStrings(ToLowerCase(JsString(Or(raw, Str(""))))), raw)
       IN << TextNode("State: "), El("span", "highlight", <<>>, TextContent(stateLabel), <<>>) >>
  ELSE << TextNode("Waiting for tournament details") >>

\* x != null ? x : '—'
OrDash(x) == IF Nullish(x) THEN EmDash ELSE TextContent(x)

\* Lines 187-249, on a status section that has all its sub-elements. A throw
\* at line 199 leaves the name written and the rest as it was.
UpdateStatus(st, payload) ==
  LET tournament == Or(OptGet(payload, "tournament"), Null)
      named == [st EXCEPT !.name = TextContent(Or(OptGet(tournament, "name"), Str("Challonge Tournament")))]
      url == OptGet(tournament, "url")
      configured == OptGet(payload, "configured") # Bool(FALSE)
      error == OptGet(payload, "error")
  IN IF StateThrows(tournament) THEN [status |-> named, threw |-> TRUE]
     ELSE [threw |-> FALSE,
           status |->
             [name |-> named.name,
              state |-> StateKids(tournament),
              participants |-> OrDash(OptGet(tournament, "total_participants")),
              matches |-> OrDash(OptGet(tournament, "total_matches")),
              updated |-> TextContent(Or(OptGet(payload, "fetched_at"), Str(EmDash))),
              href |-> IF Truthy(url) THEN JsString(url) ELSE "#",
              linkHidden |-> ~Truthy(url),
              error |-> IF ~configured THEN "Challonge integration is not configured."
                        ELSE IF Truthy(error) THEN TextContent(error) ELSE "",
              errorHidden |-> configured /\ ~Truthy(error)]]

\* Lines 251-274: the status summary, then the four regions in order; what one
\* of them throws ends the pass. A region the page lacks is skipped.
ApplyPayload(sc, d, payload) ==
  LET tournament == Or(OptGet(payload, "tournament"), Null)
      s1 == IF sc.status THEN UpdateStatus(d.status, payload)
            ELSE [status |-> d.status, threw |-> FALSE]
      has(r) == r \in sc.present
      skip(r) == Done(d.regions[r])
      r1 == IF s1.threw THEN Threw(d.regions["current"])
            ELSE IF has("current")
            THEN RenderCurrent(d.regions["current"], Or(OptGet(tournament, "current_match"), Null))
            ELSE skip("current")
      r2 == IF r1.threw THEN Threw(d.regions["upcoming"])
            ELSE IF has("upcoming")
            THEN RenderMatchList(d.regions["upcoming"], Or(OptGet(tournament, "upcoming_matches"), Arr(<<>>)),
                                 "No upcoming matches have been posted.")
            ELSE skip("upcoming")
      r3 == IF r2.threw THEN Threw(d.regions["recent"])
            ELSE IF has("recent")
            THEN RenderMatchList(d.regions["recent"], Or(OptGet(tournament, "recent_matches"), Arr(<<>>)),
                                 "No matches have been completed yet.")
            ELSE skip("recent")
      r4 == IF r3.threw THEN Threw(d.regions["rounds"])
            ELSE IF has("rounds")
            THEN RenderRounds(d.regions["rounds"], Or(OptGet(tournament, "rounds"), Arr(<<>>)))
            ELSE skip("rounds")
  IN IF ~sc.root THEN [dom |-> d, threw |-> FALSE]
     ELSE [threw |-> r4.threw,
           dom |-> [status |-> s1.status,
                    regions |-> [r \in Regions |->
                       CASE r = "current" -> r1.kids
                         [] r = "upcoming" -> r2.kids
                         [] r = "recent" -> r3.kids
                         [] OTHER -> r4.kids]]]


----------------------------------------------------------------------------
(* Status Poller: src/static/challonge_live.js, lines 276-311               *)

GenericError == "Unable to load tournament data."

\* The catch handler's payload without its error.
ErrorPayload_NoError == Obj([configured |-> Bool(TRUE), tournament |-> Null])

\* Lines 289-293: the payload the catch handler renders.
ErrorPayload ==
  Obj([configured |-> Bool(TRUE), error |-> Str(GenericError), tournament |-> Null])

\* v.k = x on an object or an array
SetProp(v, k, x) ==
  [v EXCEPT !.o = [f \in (DOMAIN v.o) \cup {k} |-> IF f = k THEN x ELSE v.o[f]]]

\* Lines 280-283: the payload the then handler renders. Writing a property of
\* a primitive does nothing in sloppy code and is a TypeError in strict code.
ThenPayload(ok, data, strict) ==
  IF ok THEN [payload |-> data, threw |-> FALSE]
  ELSE LET d == Or(data, EmptyObj)
           e == Or(Get(d, "error"), Str(GenericError))
       IN IF d.t \in {"obj", "arr"}
          THEN [payload |-> SetProp(d, "error", e), threw |-> FALSE]
          ELSE [payload |-> d, threw |-> strict]

Handles(tms) == {t.h : t \in tms}

\* The handle setTimeout returns: the lowest that names no pending timer.
FreshHandle(tms) ==
  CHOOSE h \in 1..(Cardinality(tms) + 1) :
    /\ h \notin Handles(tms)
    /\ \A g \in 1..(h - 1) : g \in Handles(tms)

\* Lines 303-308: scheduleNext.
ScheduleNext(tm, tms) ==
  LET cleared == IF tm # 0 THEN {t \in tms : t.h # tm} ELSE tms
      h == FreshHandle(cleared)
  IN [timer |-> h, timers |-> cleared \cup {[h |-> h, delay |-> REFRESH_MS]}]

\* A timer that repeats, as setInterval's would: firing leaves it pending.
AfterFire_Repeats(tms, t) == tms

\* Line 307: setTimeout's callback runs once, and the timer is gone.
AfterFire(tms, t) == tms \ {t}

FreeChain == [stage |-> "free", ok |-> FALSE, body |-> 0, origin |-> "none",
              applied |-> 0, scheduled |-> 0]

HasFreeChain == \E c \in DOMAIN chains : chains[c].stage = "free"

\* Line 277: fetchAndRender issues the request of a new cycle.
StartFetch(cs) ==
  LET c == CHOOSE c \in DOMAIN cs :
             cs[c].stage = "free" /\ \A d \in DOMAIN cs : cs[d].stage = "free" => c <= d
  IN [cs EXCEPT ![c] = [FreeChain EXCEPT !.stage = "fetch"]]

Finished(ch) == [outcome |-> ch.origin, applied |-> ch.applied, scheduled |-> ch.scheduled]

\* Lines 298-311: the DOMContentLoaded listener.
PageReady ==
  /\ ppc = "loading"
  /\ IF scaffold.root
     THEN ppc' = "ready" /\ chains' = StartFetch(chains)
     ELSE ppc' = "noroot" /\ chains' = chains
  /\ UNCHANGED <<scaffold, timer, timers, dom, lastRender, lastCycle>>

\* Line 307: the timer fires and its callback calls fetchAndRender.
TimerFires ==
  /\ ppc = "ready"
  /\ HasFreeChain
  /\ \E t \in timers :
       /\ timers' = AfterFire(timers, t)
       /\ chains' = StartFetch(chains)
  /\ UNCHANGED <<scaffold, ppc, timer, dom, lastRender, lastCycle>>

\* Line 277: the request fails; the rejection travels to the catch of line 287.
StatusFetchReject(c) ==
  /\ chains[c].stage = "fetch"
  /\ chains' = [chains EXCEPT ![c].stage = "rejected", ![c].origin = "rejected"]
  /\ UNCHANGED <<scaffold, ppc, timer, timers, dom, lastRender, lastCycle>>

\* Line 277: a response arrives (its status line first), and line 278 asks
\* for its body.
StatusFetchResolve(c, ok) ==
  /\ chains[c].stage = "fetch"
  /\ chains' = [chains EXCEPT ![c].stage = "json", ![c].ok = ok,
                              ![c].origin = IF ok THEN "ok" ELSE "httpError"]
  /\ UNCHANGED <<scaffold, ppc, timer, timers, dom, lastRender, lastCycle>>

\* Line 278: response.json() rejects on a body that is not JSON.
StatusJsonReject(c) ==
  /\ chains[c].stage = "json"
  /\ chains' = [chains EXCEPT ![c].stage = "rejected", ![c].origin = "badJson"]
  /\ UNCHANGED <<scaffold, ppc, timer, timers, dom, lastRender, lastCycle>>

\* Matches and the bodies the status endpoint may answer with.
MatchFull ==
  Obj([id |-> Num(1), round_label |-> Str("Semifinal"), player1_name |-> Str("Ann"),
       player2_name |-> Str("Bob"), winner_slot |-> Str("player2"),
       score_text |-> Str("2-1"), status_text |-> Str("Final")])
MatchPartial ==
  Obj([id |-> Str("m2"), player1_name |-> Str("Cy"), winner_slot |-> Str("player1")])
MatchOdd ==
  Obj([id |-> Null, player2_name |-> Str("Dee"), winner_slot |-> Str("draw")])

StatusBodies ==
  << Null,
     Num(5),
     Str(""),
     Arr(<<>>),
     EmptyObj,
     Obj([configured |-> Bool(FALSE), error |-> Str("Rate limited"), tournament |-> Null]),
     Obj([configured |-> Bool(TRUE), error |-> Null, fetched_at |-> Str("2024-01-01T00:00:00Z"),
          tournament |-> Obj([name |-> Str("Cup"), state |-> Str("underway"),
                              total_participants |-> Num(8), total_matches |-> Num(7),
                              url |-> Str("https://x"), current_match |-> Null,
                              upcoming_matches |-> Arr(<<>>), recent_matches |-> Arr(<<>>),
                              rounds |-> Arr(<<>>)])]),
     Obj([configured |-> Bool(TRUE), fetched_at |-> Str("2024-01-02T00:00:00Z"),
          tournament |-> Obj([name |-> Str("Open"), state |-> Str("Complete"),
                              total_participants |-> Num(0),
                              current_match |-> MatchFull,
                              upcoming_matches |-> Arr(<<MatchPartial, MatchOdd>>),
                              recent_matches |-> Arr(<<MatchFull>>),
                              rounds |-> Arr(<< Obj([round |-> Num(1), round_label |-> Null,
                                                    matches |-> Arr(<<MatchFull, Null>>)]),
                                                Obj([round |-> Null, round_label |-> Str("Final")]) >>)])]),
     Obj([error |-> Str("Upstream timeout"),
          tournament |-> Obj([name |-> Str("Cup"), state |-> Str("archived"),
                              current_match |-> MatchPartial,
                              upcoming_matches |-> Arr(<<MatchFull>>)])]),
     Obj([tournament |-> Obj([state |-> Num(5)])]),
     Obj([tournament |-> Obj([upcoming_matches |-> Str("soon")])]),
     Obj([tournament |-> Obj([current_match |-> MatchOdd, rounds |-> Arr(<<Null>>)])]) >>

\* Whether some region of the page shows matches.
ShowsMatches(d) ==
  \E r \in Regions : \E i \in 1..Len(d.regions[r]) :
    d.regions[r][i].cls \in {"current-match-card", "match-list", "rounds-grid"}

\* The record of a call of applyPayload: the handler that made it, the cycle's
\* response, the payload, whether it threw, and what the page was before it
\* (bare: a region the page has was empty; overMatches: matches were shown).
Rendered(handler, ch, payload, threw, before) ==
  [handler |-> handler, origin |-> ch.origin, body |-> ch.body, payload |-> payload,
   threw |-> threw,
   bare |-> \E r \in scaffold.present : before.regions[r] = <<>>,
   overMatches |-> ShowsMatches(before)]

\* Lines 278-286: the body parses to StatusBodies[b] and the handler runs.
\* What it throws rejects the promise the catch of line 287 is attached to.
ThenHandler(c, b) ==
  /\ chains[c].stage = "json"
  /\ LET ch == [chains[c] EXCEPT !.body = b]
         tp == ThenPayload(ch.ok, StatusBodies[b], scaffold.strict)
     IN IF tp.threw
        THEN /\ chains' = [chains EXCEPT ![c].stage = "rejected", ![c].body = b]
             /\ UNCHANGED <<timer, timers, dom, lastRender, lastCycle>>
        ELSE LET r == ApplyPayload(scaffold, dom, tp.payload)
                 sn == ScheduleNext(timer, timers)
             IN /\ dom' = r.dom
                /\ lastRender' = Rendered("then", ch, tp.payload, r.threw, dom)
                /\ IF r.threw
                   THEN /\ chains' = [chains EXCEPT ![c].stage = "rejected", ![c].body = b,
                                                    ![c].applied = ch.applied + 1]
                        /\ UNCHANGED <<timer, timers, lastCycle>>
                   ELSE /\ timer' = sn.timer
                        /\ timers' = sn.timers
                        /\ chains' = [chains EXCEPT ![c] = FreeChain]
                        /\ lastCycle' = Finished([ch EXCEPT !.applied = ch.applied + 1,
                                                            !.scheduled = ch.scheduled + 1])
  /\ UNCHANGED <<scaffold, ppc>>

\* CatchHandler that renders the failure and lets the loop end.
CatchHandler_NoReschedule(c) ==
  /\ chains[c].stage = "rejected"
  /\ LET ch == chains[c]
         r == ApplyPayload(scaffold, dom, ErrorPayload)
     IN /\ dom' = r.dom
        /\ lastRender' = Rendered("catch", ch, ErrorPayload, r.threw, dom)
        /\ chains' = [chains EXCEPT ![c] = FreeChain]
        /\ lastCycle' = Finished([ch EXCEPT !.applied = ch.applied + 1])
        /\ UNCHANGED <<timer, timers>>
  /\ UNCHANGED <<scaffold, ppc>>

\* Lines 287-295: the catch handler logs, renders the failure and reschedules.
CatchHandler(c) ==
  /\ chains[c].stage = "rejected"
  /\ LET ch == chains[c]
         r == ApplyPayload(scaffold, dom, ErrorPayload)
         sn == ScheduleNext(timer, timers)
     IN /\ dom' = r.dom
        /\ lastRender' = Rendered("catch", ch, ErrorPayload, r.threw, dom)
        /\ chains' = [chains EXCEPT ![c] = FreeChain]
        /\ IF r.threw
           THEN /\ lastCycle' = Finished([ch EXCEPT !.applied = ch.applied + 1])
                /\ UNCHANGED <<timer, timers>>
           ELSE /\ timer' = sn.timer
                /\ timers' = sn.timers
                /\ lastCycle' = Finished([ch EXCEPT !.applied = ch.applied + 1,
                                                    !.scheduled = ch.scheduled + 1])
  /\ UNCHANGED <<scaffold, ppc>>

----------------------------------------------------------------------------
(* The page the Status Poller runs in.                                     *)

\* The children a region has in the static page: a heading, then filler.
LeadKids(n) ==
  [i \in 1..n |-> IF i = 1 THEN El("h3", "section-title", <<>>, "Heading", <<>>)
                  ELSE El("p", "loading", <<>>, "Loading", <<>>)]

ScaffoldStatus ==
  [name |-> "Tournament", state |-> <<TextNode("Loading")>>, participants |-> "",
   matches |-> "", updated |-> "", href |-> "#", linkHidden |-> TRUE,
   error |-> "", errorHidden |-> TRUE]

\* The sets of regions a page may have.
PresentSets == {Regions, {"current", "rounds"}, {}}

\* root: [data-challonge-root] exists; status: the status section and its
\* sub-elements exist; present: the regions that exist; lead: the children
\* each of them has; strict: the script runs as strict code (a module).
Scaffolds ==
  [root : {TRUE}, status : BOOLEAN, strict : BOOLEAN,
   present : PresentSets, lead : 0..MaxLead]
  \cup [root : {FALSE}, status : {FALSE}, strict : {FALSE}, present : {{}}, lead : {0}]

InitialDom(sc) ==
  [status |-> ScaffoldStatus,
   regions |-> [r \in Regions |-> IF r \in sc.present THEN LeadKids(sc.lead) ELSE <<>>]]

NoRender == [handler |-> "none", origin |-> "none", body |-> 0, payload |-> Undef,
             threw |-> FALSE, bare |-> FALSE, overMatches |-> FALSE]
NoCycle == [outcome |-> "none", applied |-> 0, scheduled |-> 0]

----------------------------------------------------------------------------
(* The watcher alone: the Status Poller's page never becomes ready.        *)

Pages ==
  [configEl : BOOLEAN, bracket : BOOLEAN,
   config : 1..Len(ConfigTexts), marker : 1..Len(Markers)]

WatcherIdle ==
  /\ wpc = "boot"
  /\ intervalMs = 0
  /\ lastSeenUpdate = Undef
  /\ polls = [s \in 1..MaxPolls |-> FreePoll]
  /\ ticks = 0
  /\ reloads = 0
  /\ log = <<>>

PollerIdle ==
  /\ ppc = "loading"
  /\ chains = [c \in 1..MaxChains |-> FreeChain]
  /\ timer = 0
  /\ timers = {}
  /\ dom = InitialDom(scaffold)
  /\ lastRender = NoRender
  /\ lastCycle = NoCycle

WatcherInit ==
  /\ page \in Pages
  /\ WatcherIdle
  /\ scaffold = [root |-> FALSE, status |-> FALSE, strict |-> FALSE, present |-> {}, lead |-> 0]
  /\ PollerIdle

WatcherNext ==
  \/ WatcherStartup /\ UNCHANGED pvars
  \/ Tick /\ UNCHANGED pvars
  \/ \E s \in 1..MaxPolls : PollFetchReject(s) /\ UNCHANGED pvars
  \/ \E s \in 1..MaxPolls, ok \in BOOLEAN, b \in 0..Len(WatcherBodies) :
       PollFetchResolve(s, ok, b) /\ UNCHANGED pvars
  \/ \E s \in 1..MaxPolls : PollJsonSettle(s) /\ UNCHANGED pvars
  \/ Unload /\ UNCHANGED pvars

WatcherSpec == WatcherInit /\ [][WatcherNext]_vars

----------------------------------------------------------------------------
(* The Status Poller alone: the watcher never starts.                      *)

Init ==
  /\ page = [configEl |-> FALSE, bracket |-> FALSE, config |-> 1, marker |-> 1]
  /\ WatcherIdle
  /\ scaffold \in Scaffolds
  /\ PollerIdle

Settle ==
  \/ \E c \in 1..MaxChains : StatusFetchReject(c) /\ UNCHANGED wvars
  \/ \E c \in 1..MaxChains, ok \in BOOLEAN : StatusFetchResolve(c, ok) /\ UNCHANGED wvars

Handle ==
  \/ \E c \in 1..MaxChains : StatusJsonReject(c) /\ UNCHANGED wvars
  \/ \E c \in 1..MaxChains, b \in 1..Len(StatusBodies) : ThenHandler(c, b) /\ UNCHANGED wvars
  \/ \E c \in 1..MaxChains : CatchHandler(c) /\ UNCHANGED wvars

Next ==
  \/ PageReady /\ UNCHANGED wvars
  \/ TimerFires /\ UNCHANGED wvars
  \/ Settle
  \/ Handle

Spec == Init /\ [][Next]_vars

\* Every request settles, every handler runs and every timer fires.
FairSpec ==
  /\ Init /\ [][Next]_vars
  /\ WF_vars(PageReady /\ UNCHANGED wvars)
  /\ WF_vars(TimerFires /\ UNCHANGED wvars)
  /\ WF_vars(Settle)
  /\ WF_vars(Handle)

----------------------------------------------------------------------------
(* Claims about the Status Poller and the Renderer.                        *)

\* The cycles whose request or handlers have not finished.
InFlight == {c \in DOMAIN chains : chains[c].stage # "free"}
Fetching == \E c \in DOMAIN chains : chains[c].stage = "fetch"

\* C1: at every moment at most one request is in flight and at most one timer
\* is pending, never both; a request is issued only at page-ready or by a
\* timer firing, and a timer is set only by a cycle's completion handler.
C1_OneCycleAtATime ==
  /\ [](Cardinality(InFlight) + Cardinality(timers) <= 1)
  /\ [][/\ (\E c \in DOMAIN chains : chains[c].stage = "free" /\ chains'[c].stage = "fetch")
             => (ppc = "loading" \/ \E t \in timers : t \notin timers')
        /\ (\E t \in timers' : t \notin timers)
             => \E c \in DOMAIN chains :
                  chains[c].stage \in {"json", "rejected"} /\ chains'[c].stage = "free"]_vars

C1_Witness ==
  /\ lastCycle.outcome = "rejected"
  /\ Cardinality(InFlight) = 1
  /\ timers = {}

\* C2: whatever the outcome of a cycle's request, the cycle calls applyPayload
\* exactly once and scheduleNext exactly once.
C2_OneRenderOneReschedule ==
  lastCycle.outcome # "none" => lastCycle.applied = 1 /\ lastCycle.scheduled = 1

\* C3: with the root element present, a new cycle starts again and again
\* (so after a cycle of any outcome a next one eventually starts), and every
\* timer is set for 15000 ms.
C3_CyclesForever ==
  /\ [](\A t \in timers : t.delay = 15000)
  /\ (scaffold.root => []<>Fetching)

C3_Witness ==
  /\ lastCycle.outcome = "badJson"
  /\ Fetching
  /\ timers = {}

\* What a region holds when it shows its placeholder only: the child the
\* clearing keeps (the first of the static page, if any), then the paragraph.
PlaceholderText(r) ==
  CASE r = "current" -> "No live match right now."
    [] r = "upcoming" -> "No upcoming matches have been posted."
    [] r = "recent" -> "No matches have been completed yet."
    [] OTHER -> "Bracket data will appear once matches are seeded."

PlaceholderOnly(r) ==
  dom.regions[r] = (IF scaffold.lead >= 1 THEN <<LeadKids(scaffold.lead)[1]>> ELSE <<>>)
                   \o << El("p", "empty-copy", <<>>, PlaceholderText(r), <<>>) >>

FailureRendered ==
  lastRender.handler = "catch" /\ lastRender.origin \in {"rejected", "badJson"}

\* The failure payload was rendered and the banner shows the generic message.
ShowsFailure ==
  /\ lastRender.payload = Obj([configured |-> Bool(TRUE),
                               error |-> Str("Unable to load tournament data."),
                               tournament |-> Null])
  /\ scaffold.status =>
       dom.status.error = "Unable to load tournament data." /\ ~dom.status.errorHidden

EndsWithPlaceholder(r) ==
  /\ dom.regions[r] # <<>>
  /\ dom.regions[r][Len(dom.regions[r])] = El("p", "empty-copy", <<>>, PlaceholderText(r), <<>>)

\* C4, as stated: after a cycle whose request failed or whose body was not
\* JSON the catch handler has rendered the fixed failure payload, the banner
\* shows the generic message, and every region of the page shows its
\* placeholder and no match an earlier cycle rendered.
C4_FailureReplacesContent ==
  FailureRendered =>
    /\ ShowsFailure
    /\ \A r \in scaffold.present : EndsWithPlaceholder(r)
    /\ ~ShowsMatches(dom)

\* C4, amended: the failure payload is rendered and the banner shows the
\* generic message; every region ends with its placeholder, and a region that
\* has a leading child in the static page holds that child and the
\* placeholder only.
C4_FailureReplacesContentAfterLead ==
  FailureRendered =>
    /\ ShowsFailure
    /\ \A r \in scaffold.present :
         EndsWithPlaceholder(r) /\ (scaffold.lead >= 1 => PlaceholderOnly(r))

C4_Witness ==
  /\ FailureRendered
  /\ lastRender.overMatches
  /\ scaffold.status /\ scaffold.present = Regions /\ scaffold.lead >= 1
  /\ ~ShowsMatches(dom)

\* C5: for a response that is not OK and whose body is JSON, every payload
\* the cycle renders carries a non-empty error: the body's own if it has one,
\* the generic message otherwise.
C5_HttpErrorCarriesError ==
  lastRender.origin = "httpError" =>
    LET own == OptGet(StatusBodies[lastRender.body], "error")
        shown == OptGet(lastRender.payload, "error")
    IN /\ Truthy(shown)
       /\ shown = (IF Truthy(own) THEN own ELSE Str("Unable to load tournament data."))

\* C6, as stated: whatever the page held before a pass, applying the payload
\* of the pass once more leaves the status elements and every region as the
\* pass left them.
C6_RenderIdempotent ==
  lastRender.handler # "none" =>
    ApplyPayload(scaffold, dom, lastRender.payload).dom = dom

\* C6, amended: the same, for a pass that found at least one child in every
\* region of the page.
C6_RenderIdempotentAfterLead ==
  (lastRender.handler # "none" /\ ~lastRender.bare) =>
    ApplyPayload(scaffold, dom, lastRender.payload).dom = dom

C6_Witness ==
  /\ lastRender.handler = "then" /\ ~lastRender.bare /\ ~lastRender.threw
  /\ lastRender.overMatches
  /\ scaffold.present = Regions
  /\ Len(dom.regions["upcoming"]) = 2
  /\ dom.regions["upcoming"][2].cls = "match-list"
  /\ Len(dom.regions["upcoming"][2].kids) = 2

----------------------------------------------------------------------------
(* Claims about the Bracket Change Watcher.                                *)

\* The update marker the page was rendered with (null when the element has no
\* dataset, undefined when it has no data-updated attribute).
PageMarker ==
  IF Markers[page.marker].dataset THEN Markers[page.marker].updated ELSE Null

WatcherStarted == wpc \in {"running", "unloaded"}

\* The finished polls that observed an updated_at, and the first of them.
IsValue(i) == log[i].cause = "value"
IsFirstValue(i) == IsValue(i) /\ \A j \in 1..(i - 1) : ~IsValue(j)

\* C7, as stated: whatever the page was rendered with, the first successful
\* observation of updated_at triggers no reload and becomes the baseline.
C7_FirstPollNeverReloads ==
  \A i \in 1..Len(log) :
    IsFirstValue(i) => ~log[i].reload /\ log[i].last = Str(log[i].norm)

\* C7, amended: on a page rendered without an update marker (none, or an empty
\* one), the first successful observation of updated_at triggers no reload
\* and becomes the baseline, for every value the poll returns.
C7_UnseededFirstPollIsBaseline ==
  ~Truthy(PageMarker) =>
    \A i \in 1..Len(log) :
      IsFirstValue(i) => ~log[i].reload /\ log[i].last = Str(log[i].norm)

C7_Witness ==
  /\ ~Truthy(PageMarker)
  /\ \E i \in 1..Len(log) : IsFirstValue(i) /\ log[i].norm = "b" /\ lastSeenUpdate = Str("b")

\* C8: from an unseeded start, with b the string form the first successful
\* poll returned: a successful poll triggers no reload while all successful
\* polls so far returned b, and the first successful poll that returns
\* another string form triggers the reload, the only one so far.
C8_ReloadOnFirstDifference ==
  ~Truthy(PageMarker) =>
    \A f \in 1..Len(log) :
      IsFirstValue(f) =>
        \A i \in f..Len(log) :
          IsValue(i) =>
            LET same(k) == \A j \in f..k : IsValue(j) => log[j].norm = log[f].norm
            IN /\ same(i) => ~log[i].reload
               /\ (~same(i) /\ same(i - 1)) => log[i].reload /\ log[i].reloads = 1

\* C9: a poll whose request fails, whose response is not OK, whose body is
\* not JSON or offers no updated_at leaves the baseline as it was, triggers
\* no reload and lets no exception out, Unseen or Armed.
C9_FailedPollIsNoOp ==
  \A i \in 1..Len(log) :
    log[i].cause \in {"rejected", "notOk", "badJson", "noUpdate"} =>
      ~log[i].changed /\ ~log[i].reload /\ ~log[i].escaped

C9_Witness ==
  \E i, j \in 1..Len(log) :
    /\ log[i].cause = "noUpdate" /\ log[i].armed
    /\ log[j].cause \in {"rejected", "notOk", "badJson"} /\ ~log[j].armed
    /\ lastSeenUpdate = Str("a")

\* C10: a page rendered with a (non-empty) update marker starts Armed with it
\* as baseline and keeps it; the first successful poll triggers the reload
\* exactly when the string form it returns differs from the marker.
C10_SeededFirstPollReloads ==
  (WatcherStarted /\ Truthy(PageMarker)) =>
    /\ lastSeenUpdate = PageMarker
    /\ \A i \in 1..Len(log) :
         IsFirstValue(i) => (log[i].reload <=> log[i].norm # PageMarker.s)

C10_Witness ==
  /\ Truthy(PageMarker)
  /\ Len(log) = 1
  /\ log[1].cause = "value" /\ log[1].norm = "b" /\ log[1].reload
  /\ reloads = 1

----------------------------------------------------------------------------
(* Further claims about the Renderer.                                      *)

\* The tournament of the payload the last pass rendered (null when absent).
RenderedTournament == Or(OptGet(lastRender.payload, "tournament"), Null)

\* The value the payload holds for a region.
RegionField(r) ==
  OptGet(RenderedTournament,
         CASE r = "current" -> "current_match"
           [] r = "upcoming" -> "upcoming_matches"
           [] r = "recent" -> "recent_matches"
           [] OTHER -> "rounds")

\* C12, as stated: after every render pass on a page that has the banner, the
\* banner is hidden and empty when configured is not false and there is no
\* error, shows the not-configured message when configured is false (whatever
\* error is), and shows the error text otherwise.
C12_BannerFollowsPayload ==
  (lastRender.handler # "none" /\ scaffold.status) =>
    LET configured == OptGet(lastRender.payload, "configured") # Bool(FALSE)
        error == OptGet(lastRender.payload, "error")
    IN /\ (configured /\ ~Truthy(error)) =>
            dom.status.errorHidden /\ dom.status.error = ""
       /\ ~configured =>
            ~dom.status.errorHidden
            /\ dom.status.error = "Challonge integration is not configured."
       /\ (configured /\ Truthy(error)) =>
            ~dom.status.errorHidden /\ dom.status.error = TextContent(error)

\* Whether a player slot carries the winner marker.
Marked(slot) == slot.cls \in {"match-player winner", "current-player winner"}

\* The two player slots of a row or card follow the match's winner_slot.
SlotsFollow(node, match) ==
  LET slots == node.kids[2].kids
      w == OptGet(match, "winner_slot")
  IN /\ Len(slots) = 3
     /\ Marked(slots[1]) <=> w = Str("player1")
     /\ Marked(slots[3]) <=> w = Str("player2")
     /\ ~Marked(slots[2])
     /\ \A i \in {1, 3} : ~Marked(slots[i]) => slots[i].cls \in {"match-player", "current-player"}

LastKid(r) == dom.regions[r][Len(dom.regions[r])]

\* C13: after a pass that rendered every region, each match of the payload
\* (the current one, those of both lists and those of every round) has its
\* winner marker on exactly the first slot for "player1", exactly the second
\* for "player2" and on neither for any other or absent value.
C13_WinnerMarkerFollowsSlot ==
  (lastRender.handler # "none" /\ ~lastRender.threw) =>
    /\ ("current" \in scaffold.present /\ Truthy(RegionField("current"))) =>
         SlotsFollow(LastKid("current"), RegionField("current"))
    /\ \A r \in {"upcoming", "recent"} \cap scaffold.present :
         Truthy(OptGet(RegionField(r), "length")) =>
           /\ Len(LastKid(r).kids) = Len(RegionField(r).a)
           /\ \A i \in 1..Len(RegionField(r).a) :
                SlotsFollow(LastKid(r).kids[i], RegionField(r).a[i])
    /\ ("rounds" \in scaffold.present /\ Truthy(OptGet(RegionField("rounds"), "length"))) =>
         \A j \in 1..Len(RegionField("rounds").a) :
           LET ms == Or(Get(RegionField("rounds").a[j], "matches"), Arr(<<>>))
               rows == LastKid("rounds").kids[j].kids[2].kids
           IN /\ Len(rows) = Len(ms.a)
              /\ \A i \in 1..Len(ms.a) : SlotsFollow(rows[i], ms.a[i])

C13_Witness ==
  /\ lastRender.handler = "then" /\ ~lastRender.threw
  /\ scaffold.present = Regions
  /\ Get(RegionField("current"), "winner_slot") = Str("player2")
  /\ Marked(LastKid("current").kids[2].kids[3])
  /\ Len(RegionField("upcoming").a) = 2
  /\ Marked(LastKid("upcoming").kids[1].kids[2].kids[1])
  /\ Get(RegionField("upcoming").a[2], "winner_slot") = Str("draw")
  /\ ~Marked(LastKid("upcoming").kids[2].kids[2].kids[1])
  /\ ~Marked(LastKid("upcoming").kids[2].kids[2].kids[3])
  /\ Len(LastKid("rounds").kids[1].kids[2].kids) = 2

\* The payload's field for a region is null, absent or an empty list.
FieldEmpty(r) ==
  \/ Nullish(RegionField(r))
  \/ RegionField(r).t = "arr" /\ Len(RegionField(r).a) = 0

\* C14, as stated, on a page whose regions have their leading child: after a
\* pass whose payload has a region's field null, absent or empty, the region
\* holds its placeholder paragraph (after the leading child) and nothing else.
C14_EmptyFieldShowsPlaceholder ==
  (lastRender.handler # "none" /\ scaffold.lead >= 1) =>
    \A r \in scaffold.present : FieldEmpty(r) => PlaceholderOnly(r)

\* C17, as stated: in every region that has a leading child in the static
\* page, after every pass the children are that child and one node a region
\* function built (a placeholder, a card, a list or a grid).
C17_LeadingChildThenOneNode ==
  (lastRender.handler # "none" /\ scaffold.lead >= 1) =>
    \A r \in scaffold.present :
      /\ Len(dom.regions[r]) = 2
      /\ dom.regions[r][1] = LeadKids(scaffold.lead)[1]
      /\ dom.regions[r][2].cls \in {"empty-copy", "current-match-card", "match-list", "rounds-grid"}

\* C18, as stated, on a page whose regions have their leading child: after
\* any sequence of passes the status elements and the regions hold what
\* rendering the last payload alone on the static page gives.
C18_ReplaceNotPatch ==
  (lastRender.handler # "none" /\ scaffold.lead >= 1) =>
    dom = ApplyPayload(scaffold, InitialDom(scaffold), lastRender.payload).dom

\* C20: while a status request has not settled no timer is pending and no
\* other cycle is in flight, and the only step the poller can take is that
\* request settling, which renders nothing and sets no timer; so without it
\* the page keeps its content and no request follows.
C20_NoTimeoutOfItsOwn ==
  /\ [](Fetching => timers = {} /\ Cardinality(InFlight) = 1)
  /\ [][Fetching =>
          /\ \E c \in DOMAIN chains :
               /\ chains[c].stage = "fetch"
               /\ chains'[c].stage \in {"json", "rejected"}
               /\ \A d \in DOMAIN chains \ {c} : chains'[d] = chains[d]
          /\ UNCHANGED <<scaffold, ppc, timer, timers, dom, lastRender, lastCycle>>]_vars

C20_Witness ==
  /\ Fetching
  /\ lastCycle.outcome = "ok" /\ lastCycle.scheduled = 1
  /\ ShowsMatches(dom)
  /\ timer # 0 /\ timers = {}

----------------------------------------------------------------------------
(* Further claims about the Bracket Change Watcher.                        *)

\* The page gives the watcher what it needs to start: both elements, a
\* configuration that parses, an endpoint URL and an interval that reads as a
\* positive number.
StartupPasses ==
  /\ page.configEl /\ page.bracket
  /\ LET text == ConfigTexts[page.config]
         cfg == IF text.empty THEN EmptyObj ELSE text.value
     IN /\ text.empty \/ text.valid
        /\ ~Nullish(cfg)
        /\ Truthy(Get(cfg, "apiUrl"))
        /\ LET ms == ParseInt(Get(cfg, "refreshInterval")) IN ~ms.nan /\ ms.n > 0

NoPollEver ==
  /\ ticks = 0
  /\ log = <<>>
  /\ reloads = 0
  /\ \A s \in DOMAIN polls : polls[s].stage = "free"

\* C11: on a page that does not pass the startup check the watcher never
\* installs its timer and never issues a request; the timer is installed, and
\* requests are issued, only after the startup and only when the check passed.
C11_NoRequestUnlessStartupPasses ==
  /\ ~StartupPasses => (wpc \in {"boot", "off", "crashed"} /\ intervalMs = 0 /\ NoPollEver)
  /\ wpc = "boot" => (intervalMs = 0 /\ NoPollEver)
  /\ (intervalMs # 0 \/ ~NoPollEver) => (StartupPasses /\ WatcherStarted /\ intervalMs > 0)

C11_Witness ==
  /\ wpc = "off"
  /\ page.configEl /\ page.bracket
  /\ Truthy(Get(ConfigTexts[page.config].value, "apiUrl"))
  /\ Get(ConfigTexts[page.config].value, "refreshInterval") = Num(0)
  /\ NoPollEver

\* C15, as stated: from an unseeded start, the first successful poll that
\* returns an updated_at stores its string form as the baseline and triggers
\* no reload, whatever the value; no later poll changes the baseline, and a
\* later successful poll triggers the reload exactly when its string form
\* differs from that baseline.
C15_FirstValueArms ==
  ~Truthy(PageMarker) =>
    \A f \in 1..Len(log) :
      IsFirstValue(f) =>
        /\ log[f].last = Str(log[f].norm) /\ ~log[f].reload
        /\ \A i \in (f + 1)..Len(log) :
             /\ log[i].last = Str(log[f].norm)
             /\ IsValue(i) => (log[i].reload <=> log[i].norm # log[f].norm)

\* C16, as stated: no poll handler changes the watcher's state.
C16_HandlersNeverMutate ==
  /\ [](\A i \in 1..Len(log) : ~log[i].changed)
  /\ [][Len(log') > Len(log) => lastSeenUpdate' = lastSeenUpdate]_vars

\* C16, amended: whatever the overlap and the order of the responses, a poll
\* handler leaves the page, the timer and the tick count alone; it writes the
\* baseline only when it finds none, with the string form it observed and
\* without a reload; and a handler that triggers the reload writes nothing.
C16_HandlersOnlyCaptureOrCompare ==
  /\ [](\A i \in 1..Len(log) :
          log[i].changed =>
            /\ ~log[i].armed /\ ~log[i].reload
            /\ log[i].cause = "value" /\ log[i].last = Str(log[i].norm))
  /\ [][Len(log') > Len(log) =>
          /\ UNCHANGED <<page, wpc, intervalMs, ticks>>
          /\ reloads' \in {reloads, reloads + 1}
          /\ reloads' # reloads => lastSeenUpdate' = lastSeenUpdate
          /\ lastSeenUpdate' # lastSeenUpdate => ~Truthy(lastSeenUpdate)]_vars

\* Two invocations overlapped: the second tick found the first still in
\* flight, and the first has since captured the baseline.
C16_Witness ==
  /\ ticks = 2
  /\ polls[1].stage = "free" /\ polls[2].stage = "json"
  /\ Len(log) = 1 /\ log[1].changed /\ log[1].norm = "a"
  /\ lastSeenUpdate = Str("a")

\* The first non-empty value the watcher held: the page's marker, or else the
\* first non-empty string form a poll observed.
Captures(i) == IsValue(i) /\ log[i].norm # ""
FirstObserved ==
  IF Truthy(PageMarker) THEN PageMarker.s
  ELSE log[CHOOSE i \in 1..Len(log) : Captures(i) /\ \A j \in 1..(i - 1) : ~Captures(j)].norm

\* C19: a baseline that is non-empty is never written again, and every poll
\* that finds one leaves the first-observed value in place and triggers the
\* reload exactly when the string form it observed differs from that value.
C19_BaselineWriteOnce ==
  /\ [][Truthy(lastSeenUpdate) => lastSeenUpdate' = lastSeenUpdate]_vars
  /\ [](\A i \in 1..Len(log) :
          log[i].armed =>
            /\ log[i].last = Str(FirstObserved)
            /\ log[i].reload <=> (IsValue(i) /\ log[i].norm # FirstObserved))

\* The baseline is still "a" after two polls that both observed "b": both
\* were compared with the first-observed value.
C19_Witness ==
  /\ lastSeenUpdate = Str("a")
  /\ Len(log) = 3
  /\ log[1].cause = "value" /\ log[1].norm = "a" /\ log[1].changed
  /\ log[2].norm = "b" /\ log[2].reload
  /\ log[3].norm = "b" /\ log[3].reload
  /\ reloads = 2
====
